---- MODULE Spec2Model ----
(***************************************************************************)
(* State-machine model of the VAST DataBase persistence layer of           *)
(* exr_inspector (src/functions/exr_inspector/vast_db_persistence.py):     *)
(* persist_to_vast_database and the select-then-insert transaction it      *)
(* runs against an external transactional table store.                     *)
(***************************************************************************)
EXTENDS Integers, Sequences, FiniteSets, TLC

\* ------------------------------------------------------------------ bounds

\* Number of persist_to_vast_database invocations in one behaviour.
MaxCalls == 2

\* Largest embedding_dim requested of an encoder.
MaxDim == 15

\* Invocation slots.  Spec runs invocations one after the other in slot 1.
Procs == {1, 2}
SeqProcs == {1}

\* ------------------------------------------------------------- text values

\* Python None for file_id / error.
NoId == <<>>
NoText == <<>>

\* A text is the sequence of the fragments an f-string concatenates.
Contains(text, frag) == \E i \in DOMAIN text : text[i] = frag

\* ---------------------------------------------------------------- payloads

\* A section of the payload: a JSON list, or null.
Section(items) == [null |-> FALSE, items |-> items]
NullSection == [null |-> TRUE, items |-> <<>>]

\* File paths as sequences of characters.
PathLower == <<"/", "a">>
PathUpper == <<"/", "A">>
Paths == {PathLower, PathUpper}
NoPath == <<>>
Mtimes == {"t1", "t2"}

\* Structural content of a record: parts, channels, attributes.
EmptyBody ==
    [multipart_count |-> 1, is_deep |-> FALSE,
     parts |-> Section(<<>>), channels |-> Section(<<>>),
     attributes |-> Section(<<>>)]
FullBody ==
    [multipart_count |-> 1, is_deep |-> FALSE,
     parts |-> Section(<<[part_index |-> 0, compression |-> "zip"],
                         [part_index |-> 1, compression |-> "piz"]>>),
     channels |-> Section(<<[part_index |-> 0, name |-> "R"],
                            [part_index |-> 0, name |-> "G"],
                            [part_index |-> 1, name |-> "Z"]>>),
     attributes |-> Section(<< <<"owner">>, <<"comments", "capDate">> >>)]
Bodies == {EmptyBody, FullBody}

\* file.size_bytes of a record, and of the same file after it grew.
SizeSmall == "1KB"
SizeLarge == "2KB"

Payload(shape, path, mtime, body) ==
    [shape |-> shape, path |-> path, mtime |-> mtime, size_bytes |-> SizeSmall,
     multipart_count |-> body.multipart_count, is_deep |-> body.is_deep,
     parts |-> body.parts, channels |-> body.channels,
     attributes |-> body.attributes]

\* Well-formed records.
GoodPayloads ==
    {Payload("map", PathLower, m, b) : m \in Mtimes, b \in Bodies}
    \cup {Payload("map", PathUpper, "t1", b) : b \in Bodies}
    \cup {[Payload("map", PathLower, "t1", b) EXCEPT !.size_bytes = SizeLarge] :
             b \in Bodies}

\* Malformed inputs: no path; channels null; attributes null; the payload
\* is not a mapping; the file section is null.
NoPathPayload == Payload("map", NoPath, "t1", EmptyBody)
NullChannelsPayload ==
    [Payload("map", PathLower, "t1", EmptyBody) EXCEPT !.channels = NullSection]
NullAttributesPayload ==
    [Payload("map", PathLower, "t1", EmptyBody) EXCEPT !.attributes = NullSection]
NotMappingPayload == Payload("notmap", NoPath, "t1", EmptyBody)
FileNullPayload == Payload("filenull", NoPath, "t1", EmptyBody)
BadPayloads ==
    {NoPathPayload, NullChannelsPayload, NullAttributesPayload,
     NotMappingPayload, FileNullPayload}

Payloads == GoodPayloads \cup BadPayloads
NoPayload == Payload("none", NoPath, "t1", EmptyBody)

\* How the invocation gets its session: supplied by the caller, or built
\* from the SDK class and the endpoint of the event, of the environment, or
\* of the import-time default.
Config(supplied, sdk, ev, env, def) ==
    [supplied |-> supplied, sdk |-> sdk, event_endpoint |-> ev,
     env_endpoint |-> env, default_endpoint |-> def]
SuppliedConfig == Config(TRUE, FALSE, "", "", "")
Configs ==
    {SuppliedConfig,
     Config(FALSE, FALSE, "ep", "", ""),   \* SDK missing
     Config(FALSE, TRUE, "", "", ""),      \* no endpoint anywhere
     Config(FALSE, TRUE, "ep", "", ""),    \* endpoint in the event
     Config(FALSE, TRUE, "", "ep", ""),    \* endpoint in the environment
     Config(FALSE, TRUE, "", "", "ep")}    \* endpoint in the default

\* ------------------------------------------------------ identity and keys

OsSep == "/"

Lower(c) == CASE c = "A" -> "a" [] c = "B" -> "b" [] OTHER -> c

\* _normalize_path on an absolute path without symlinks: resolve() leaves
\* it as it is, then separators are replaced and the text is lowercased.
normalize_path(path) ==
    [i \in DOMAIN path |-> Lower(IF path[i] = OsSep THEN "/" ELSE path[i])]

\* Mutation: size and mtime enter the hash.
header_hash_with_stat(pl) ==
    <<pl.multipart_count, pl.is_deep, pl.parts.items, pl.size_bytes, pl.mtime>>

\* sha256 over multipart_count, is_deep and the serialized parts, as the
\* tuple of what is hashed.
header_hash(pl) == <<pl.multipart_count, pl.is_deep, pl.parts.items>>

\* sha256(path + mtime + md5(path))[:16], as the tuple of what is hashed.
derive_file_id(pl) == <<pl.path, pl.mtime>>

DedupKey(pl) == <<normalize_path(pl.path), header_hash(pl)>>
RowKey(row) == <<row.file_path_normalized, row.header_hash>>

\* ---------------------------------------------------------- row projection

RECURSIVE Flatten(_)
Flatten(ss) == IF ss = <<>> THEN <<>> ELSE Head(ss) \o Flatten(Tail(ss))

payload_to_files_row(pl) ==
    <<[file_id |-> derive_file_id(pl),
       file_path_normalized |-> normalize_path(pl.path),
       header_hash |-> header_hash(pl),
       size_bytes |-> pl.size_bytes,
       mtime |-> pl.mtime]>>

payload_to_parts_rows(pl, fid) ==
    [i \in DOMAIN pl.parts.items |->
        [file_id |-> fid, part_index |-> pl.parts.items[i].part_index]]

\* Mutation: every channel row carries the fingerprint.
RowFingerprintEveryRow(idx, fp) == fp

\* `channel_fingerprint if idx == 0 else []` (idx counts from 1 here).
RowFingerprint(idx, fp) == IF idx = 1 THEN fp ELSE <<>>

payload_to_channels_rows(pl, fid, fp) ==
    [i \in DOMAIN pl.channels.items |->
        [file_id |-> fid, part_index |-> pl.channels.items[i].part_index,
         channel_name |-> pl.channels.items[i].name,
         channel_fingerprint |-> RowFingerprint(i, fp)]]

\* Mutation: one attributes row per part instead of one per attribute.
payload_to_attributes_rows_per_part(pl, fid) ==
    [i \in DOMAIN pl.attributes.items |->
        [file_id |-> fid, part_index |-> i - 1,
         attribute_name |-> pl.attributes.items[i][1]]]

payload_to_attributes_rows(pl, fid) ==
    Flatten([i \in DOMAIN pl.attributes.items |->
        [j \in DOMAIN pl.attributes.items[i] |->
            [file_id |-> fid, part_index |-> i - 1,
             attribute_name |-> pl.attributes.items[i][j]]]])

EmptyTables ==
    [files |-> <<>>, parts |-> <<>>, channels |-> <<>>, attributes |-> <<>>]

\* ---------------------------------------------------------- vector encoders

\* Floats are fixed-point multiples of 1/Scale; Scale is a common multiple
\* of the denominators 64, 16 and 20 of the feature values.
Scale == 64 * 20

\* IEEE not-a-number; every number of the model is >= 0.
NaN == 0 - 1
IsNaN(x) == x < 0

\* Float addition.
Add(a, b) == IF IsNaN(a) \/ IsNaN(b) THEN NaN ELSE a + b

\* sum(values)
RECURSIVE Sum(_)
Sum(vs) == IF vs = <<>> THEN 0 ELSE Add(Head(vs), Sum(Tail(vs)))

RECURSIVE Pow2(_)
Pow2(n) == IF n <= 0 THEN 1 ELSE 2 * Pow2(n - 1)

\* A 4-byte chunk of a digest read as a binary32 float: sign s, biased
\* exponent e, and the two leading fraction bits m (significand 1 + m/4).
Word(s, e, m) == [s |-> s, e |-> e, m |-> m]

\* Exponents whose values are too small for the fixed-point resolution.
TinyExp(e) == e < 127 - 10

\* struct.unpack("f", chunk)[0] % 1.0: NaN for an infinity or a NaN (all
\* exponent bits set); otherwise the value reduced into [0, 1], a result of
\* the divisor's sign: a negative value x gives 1 - frac(|x|), which float
\* rounding makes 1.0 when |x| is tiny.
HashValue(w) ==
    IF w.e = 255 THEN NaN
    ELSE LET zero == w.e = 0 /\ w.m = 0
             whole == w.e >= 129
             frac == IF zero \/ whole \/ TinyExp(w.e) THEN 0
                     ELSE IF w.e >= 127
                          THEN ((Scale * (4 + w.m) * Pow2(w.e - 127)) \div 4)
                                  % Scale
                          ELSE (Scale * (4 + w.m)) \div (4 * Pow2(127 - w.e))
         IN  IF w.s = 0 THEN frac
             ELSE IF frac > 0 THEN Scale - frac
             ELSE IF zero \/ w.e >= 127 THEN 0
             ELSE Scale

\* hash_values: one value per chunk but the last (range(0, len - 4, 4)).
HashValues(digest) ==
    [i \in 1..(Len(digest) - 1) |-> HashValue(digest[i])]

\* An element n / sqrt(q) of a returned vector; q = 0 is NaN.
Elem(n, q) == [n |-> n, q |-> q]
NaNElem == Elem(0, 0)

\* sum(v * v for v in vs[lo..hi]); the sum is exact here, so it is taken
\* by halves.
RECURSIVE SumSqRange(_, _, _)
SumSqRange(vs, lo, hi) ==
    IF lo > hi THEN 0
    ELSE IF lo = hi
    THEN IF IsNaN(vs[lo]) THEN NaN ELSE vs[lo] * vs[lo]
    ELSE Add(SumSqRange(vs, lo, (lo + hi) \div 2),
             SumSqRange(vs, (lo + hi) \div 2 + 1, hi))

\* sum(v * v for v in combined)
SumSq(vs) == SumSqRange(vs, 1, Len(vs))

\* The outcome of an encoder: a vector, or VectorEmbeddingError.
Returned(vec) == [raised |-> FALSE, vec |-> vec]
VectorEmbeddingError == [raised |-> TRUE, vec |-> <<>>]

\* The L2 normalization both encoders end with: the uniform vector when the
\* magnitude is below 1e-9, else every value divided by the magnitude (a
\* NaN magnitude is not below 1e-9 and makes every element NaN).
Normalize(combined, dim) ==
    LET m2 == SumSq(combined) IN
    IF IsNaN(m2) THEN Returned([i \in DOMAIN combined |-> NaNElem])
    ELSE IF m2 = 0 THEN Returned([i \in 1..dim |-> Elem(1, dim)])
    ELSE Returned([i \in DOMAIN combined |-> Elem(combined[i], m2)])

\* A record given to compute_metadata_embedding: None, a string, or a
\* mapping with the keys present in it; file is a mapping or null, channels
\* and parts are lists or null.
Record(shape, keys, file_null, is_deep, channels, parts) ==
    [shape |-> shape, keys |-> keys, file_null |-> file_null,
     is_deep |-> is_deep, channels |-> channels, parts |-> parts]

\* payload.get(key, []) for the channels and parts sections.
GetSection(rec, key) == IF key \in rec.keys THEN rec[key] ELSE Section(<<>>)

\* A part: its compression ("" when absent) and the two flags.
Part(compression, is_tiled, multi_view) ==
    [compression |-> compression, is_tiled |-> is_tiled,
     multi_view |-> multi_view]

\* The AttributeError / TypeError cases of _extract_metadata_features:
\* payload without .get, parts or channels null, file null.
ExtractRaises(rec) ==
    \/ rec.shape # "map"
    \/ GetSection(rec, "parts").null
    \/ GetSection(rec, "channels").null
    \/ ("file" \in rec.keys /\ rec.file_null)

\* compressions: the set of the non-empty compression values of the parts.
Compressions(parts) ==
    {parts[i].compression : i \in DOMAIN parts} \ {""}

\* list(compressions)[0]: the element the set's iteration yields first,
\* which for a set of strings is decided by the process's hash seed; a seed
\* is given as the order it puts the strings in.
RECURSIVE SetFirst(_, _)
SetFirst(set, seed) ==
    IF seed = <<>> THEN CHOOSE c \in set : TRUE
    ELSE IF Head(seed) \in set THEN Head(seed)
    ELSE SetFirst(set, Tail(seed))

\* "compression_type" of _extract_metadata_features.
extract_compression_type(parts, seed) ==
    IF Compressions(parts) # {}
    THEN SetFirst(Compressions(parts), seed) ELSE "none"

\* _extract_metadata_features, for a record it does not raise on.
extract_metadata_features(rec, seed) ==
    LET channels == GetSection(rec, "channels").items
        parts == GetSection(rec, "parts").items
    IN  [channel_count |-> Len(channels),
         part_count |-> Len(parts),
         is_deep |-> "file" \in rec.keys /\ rec.is_deep,
         is_tiled |-> \E i \in DOMAIN parts : parts[i].is_tiled,
         has_multiview |-> \E i \in DOMAIN parts : parts[i].multi_view,
         compression_type |-> extract_compression_type(parts, seed)]

\* str.lower() on a compression name.
LowerName(c) == CASE c = "ZIP" -> "zip" [] c = "PIZ" -> "piz" [] OTHER -> c

\* _compression_to_normalized: the map's value, 0.5 for an unknown name.
compression_to_normalized(c) ==
    LET k == LowerName(c) IN
    CASE k = "none" -> 0
      [] k = "rle" -> (Scale * 4) \div 20
      [] k = "zips" -> (Scale * 8) \div 20
      [] k = "zip" -> (Scale * 10) \div 20
      [] k = "piz" -> (Scale * 12) \div 20
      [] k = "pxr24" -> (Scale * 14) \div 20
      [] k = "b44" -> (Scale * 16) \div 20
      [] k = "b44a" -> (Scale * 17) \div 20
      [] k = "dwaa" -> (Scale * 18) \div 20
      [] k = "dwab" -> (Scale * 19) \div 20
      [] OTHER -> (Scale * 10) \div 20

\* float(bool)
FloatOf(b) == IF b THEN Scale ELSE 0

\* feature_values of compute_metadata_embedding.
MetadataFeatureValues(f) ==
    <<(Scale * f.channel_count) \div 64,
      (Scale * f.part_count) \div 16,
      FloatOf(f.is_deep),
      FloatOf(f.is_tiled),
      FloatOf(f.has_multiview),
      compression_to_normalized(f.compression_type)>>

\* The value the metadata encoder appends at length seed:
\* abs((sum(combined) * (seed + 1)) % (seed + 2)) / max(1, seed + 2).
MetadataPadValue(combined) ==
    LET seed == Len(combined)
        total == Sum(combined)
    IN  IF IsNaN(total) THEN NaN
        ELSE ((total * (seed + 1)) % (Scale * (seed + 2))) \div (seed + 2)

\* while len(combined) < embedding_dim: combined.append(...)
RECURSIVE MetadataPad(_, _)
MetadataPad(combined, dim) ==
    IF Len(combined) >= dim THEN combined
    ELSE MetadataPad(Append(combined, MetadataPadValue(combined)), dim)

\* Mutation: a short vector is returned unpadded.
FitNoPad(combined, dim, padded) ==
    IF Len(combined) < dim THEN combined ELSE SubSeq(combined, 1, dim)

\* Pad or truncate to the target dimension.
Fit(combined, dim, padded) ==
    IF Len(combined) < dim THEN padded ELSE SubSeq(combined, 1, dim)

\* compute_metadata_embedding(payload, embedding_dim) in a process with the
\* given hash seed; sha is the sha256 digest of the payload's JSON.
compute_metadata_embedding(rec, dim, sha, seed) ==
    IF ExtractRaises(rec) THEN VectorEmbeddingError
    ELSE LET features == extract_metadata_features(rec, seed)
             combined == MetadataFeatureValues(features) \o HashValues(sha)
         IN  Normalize(Fit(combined, dim, MetadataPad(combined, dim)), dim)

\* A channel: its name (layer, "." present, component), type and samplings.
Channel(layer, dotted, comp, type, xs, ys) ==
    [layer |-> layer, dotted |-> dotted, comp |-> comp, type |-> type,
     x_sampling |-> xs, y_sampling |-> ys]

\* layer_set: name.split(".")[0] of the names that contain a ".".
LayerSet(chs) == {chs[i].layer : i \in {j \in DOMAIN chs : chs[j].dotted}}

\* type_counts.get(data_type, 0)
TypeCount(chs, t) == Cardinality({i \in DOMAIN chs : chs[i].type = t})

Max(a, b) == IF a >= b THEN a ELSE b

\* features of compute_channel_fingerprint: count, layers, samplings, and
\* the ratios of the types float, half, uint32, uint8.
ChannelFeatureValues(chs) ==
    LET count == Len(chs)
        total_x == Sum([i \in DOMAIN chs |-> chs[i].x_sampling])
        total_y == Sum([i \in DOMAIN chs |-> chs[i].y_sampling])
    IN  <<(Scale * count) \div 64,
          (Scale * Cardinality(LayerSet(chs))) \div Max(1, count),
          (Scale * total_x) \div Max(1, count * 2),
          (Scale * total_y) \div Max(1, count * 2),
          (Scale * TypeCount(chs, "float")) \div Max(1, count),
          (Scale * TypeCount(chs, "half")) \div Max(1, count),
          (Scale * TypeCount(chs, "uint32")) \div Max(1, count),
          (Scale * TypeCount(chs, "uint8")) \div Max(1, count)>>

\* The value the channel encoder appends to a vector of length len that
\* starts with the four values head:
\* abs(sum(combined[:4]) * (len(combined) + 1)) % 1.0.
ChannelPadValue(head, len) ==
    LET total == Sum(head) IN
    IF IsNaN(total) THEN NaN ELSE (total * (len + 1)) % Scale

\* while len(combined) < embedding_dim: combined.append(...). The vector
\* starts with the eight features, so combined[:4] is the same at every
\* append and the value appended at length len depends on len alone.
ChannelPad(combined, dim) ==
    IF Len(combined) >= dim THEN combined
    ELSE [i \in 1..dim |->
            IF i <= Len(combined) THEN combined[i]
            ELSE ChannelPadValue(SubSeq(combined, 1, 4), i - 1)]

\* Mutation: the empty case is not special and runs the encoder.
IsEmptyChannelsNever(channels) == FALSE

\* `not channels`: None or an empty list.
IsEmptyChannels(channels) == channels.null \/ channels.items = <<>>

\* compute_channel_fingerprint(channels, embedding_dim); md5 is the md5
\* digest of the joined channel names.
compute_channel_fingerprint(channels, dim, md5) ==
    IF IsEmptyChannels(channels)
    THEN Returned([i \in 1..dim |-> Elem(0, 1)])
    ELSE LET combined == ChannelFeatureValues(channels.items)
                            \o HashValues(md5)
         IN  Normalize(Fit(combined, dim, ChannelPad(combined, dim)), dim)

\* The channels of a payload as the channel encoder reads them: the name,
\* type "unknown" and samplings 1 where the channel gives none.
EncoderChannels(items) ==
    [i \in DOMAIN items |-> Channel("", FALSE, items[i].name, "unknown", 1, 1)]

\* hashlib.md5("R|G|Z").digest(), the joined names of FullBody's channels:
\* d0a79370 756ae339 7712f85a edc17b0c.
Md5OfNames ==
    <<Word(0, 225, 0), Word(0, 115, 3), Word(0, 181, 3), Word(0, 24, 3)>>

\* The default of compute_channel_fingerprint's embedding_dim.
DEFAULT_CHANNEL_FINGERPRINT_DIM == 128

\* channel_fingerprint = compute_channel_fingerprint(payload.get("channels",
\* [])) in persist_to_vast_database: no embedding_dim is passed.
channel_fingerprint(pl) ==
    compute_channel_fingerprint(Section(EncoderChannels(pl.channels.items)),
                                DEFAULT_CHANNEL_FINGERPRINT_DIM,
                                Md5OfNames).vec

\* ----------------------------------------------------------- encoder inputs

NoRecord == Record("none", {}, FALSE, FALSE, Section(<<>>), Section(<<>>))

\* None, a string, {}, {"file": None}.
NoneRecord == NoRecord
StringRecord == Record("str", {}, FALSE, FALSE, Section(<<>>), Section(<<>>))
EmptyMapping == Record("map", {}, FALSE, FALSE, Section(<<>>), Section(<<>>))
FileNullRecord ==
    Record("map", {"file"}, TRUE, FALSE, Section(<<>>), Section(<<>>))
InvalidRecords == {NoneRecord, StringRecord, EmptyMapping, FileNullRecord}

AllKeys == {"file", "channels", "parts"}

ChannelR == Channel("", FALSE, "R", "float", 1, 1)
ChannelG == Channel("", FALSE, "G", "half", 1, 1)
ChannelDiffuseR == Channel("diffuse", TRUE, "R", "half", 2, 1)

\* Records with all three sections: nothing in them; one zip part and two
\* channels; two parts with the compressions zip and piz; a deep, tiled,
\* multi-view record.
BareRecord ==
    Record("map", AllKeys, FALSE, FALSE, Section(<<>>), Section(<<>>))
ZipRecord ==
    Record("map", AllKeys, FALSE, FALSE, Section(<<ChannelR, ChannelG>>),
           Section(<<Part("zip", FALSE, FALSE)>>))
ZipPizRecord ==
    Record("map", AllKeys, FALSE, FALSE, Section(<<ChannelR>>),
           Section(<<Part("zip", FALSE, FALSE), Part("piz", FALSE, FALSE)>>))
DeepRecord ==
    Record("map", AllKeys, FALSE, TRUE, Section(<<ChannelDiffuseR>>),
           Section(<<Part("", TRUE, TRUE)>>))
ValidRecords == {BareRecord, ZipRecord, ZipPizRecord, DeepRecord}

EncRecords == InvalidRecords \cup ValidRecords

\* Channel lists given to compute_channel_fingerprint.
ChannelLists ==
    {Section(<<>>), Section(<<ChannelR>>), Section(<<ChannelR, ChannelG>>),
     Section(<<ChannelDiffuseR, ChannelG>>)}

\* Chunks: 0.5, -0.25, 1.5, a large integer value, 0.0, a tiny negative
\* value, +infinity, a NaN.
WHalf == Word(0, 126, 0)
WNegQuarter == Word(1, 125, 0)
WOneAndHalf == Word(0, 127, 2)
WLarge == Word(0, 140, 1)
WZero == Word(0, 0, 0)
WNegTiny == Word(1, 1, 0)
WInf == Word(0, 255, 0)
WNaN == Word(0, 255, 2)

\* sha256 digests (8 chunks): ordinary values with a NaN in the unused last
\* chunk; all zero; a NaN chunk; an infinity chunk.
ShaDigests ==
    {<<WHalf, WNegQuarter, WOneAndHalf, WLarge, WZero, WNegTiny, WHalf, WNaN>>,
     <<WZero, WZero, WZero, WZero, WZero, WZero, WZero, WZero>>,
     <<WHalf, WNaN, WHalf, WHalf, WHalf, WHalf, WHalf, WHalf>>,
     <<WHalf, WHalf, WHalf, WHalf, WHalf, WHalf, WInf, WHalf>>}

\* md5 digests (4 chunks), likewise.
Md5Digests ==
    {<<WHalf, WNegQuarter, WNegTiny, WNaN>>,
     <<WZero, WZero, WZero, WZero>>,
     <<WHalf, WHalf, WNaN, WHalf>>,
     <<WInf, WHalf, WHalf, WHalf>>}

\* Hash seeds of a process, as the iteration order they give a set of
\* compression names.
Seeds == {<<"zip", "piz">>, <<"piz", "zip">>}

Dims == 1..MaxDim

\* ------------------------------------------------------------------- state

VARIABLES
    pc,         \* per slot: where the invocation stands
    payload,    \* per slot: the payload argument
    config,     \* per slot: event / environment / supplied session
    result,     \* per slot: the result dict
    calls,      \* per slot: store operations invoked, in order
    faults,     \* per slot: store operations that raised
    txn,        \* per slot: state of the transaction object
    file_id,    \* per slot: file_id derived by the projection
    tables,     \* per slot: projected row sets
    existing,   \* per slot: rows returned by the SELECT (0 or 1)
    exc,        \* per slot: text of the exception in flight
    updTarget,  \* per slot: file_id the audit UPDATE was addressed to
    absent,     \* per slot: no committed FileRow had the key at invocation
    pending,    \* per slot: rows written in the open transaction
    committed,  \* the store's committed tables
    ncalls,     \* invocations started so far
    prev,       \* the last invocation, if it returned and no store call raised
    lab         \* an encoder call evaluated in two processes

vars ==
    <<pc, payload, config, result, calls, faults, txn, file_id, tables,
      existing, exc, updTarget, absent, pending, committed, ncalls, prev,
      lab>>

\* The state of the persistence layer.
persistVars ==
    <<pc, payload, config, result, calls, faults, txn, file_id, tables,
      existing, exc, updTarget, absent, pending, committed, ncalls, prev>>

\* The result dict persist_to_vast_database starts from.
InitResult ==
    [status |-> "error", file_id |-> NoId, inserted |-> FALSE,
     message |-> NoText, error |-> NoText]

NoPrev ==
    [valid |-> FALSE, payload |-> NoPayload, config |-> SuppliedConfig,
     result |-> InitResult, absent |-> FALSE]

\* The NUL character, and paths with backslashes and with a NUL in them.
Nul == "NUL"
PathBackslash == <<"/", "A", "\\", "b">>
PathNul == <<"/", "a", Nul>>
LabPaths == {PathLower, PathUpper, PathBackslash, PathNul}

\* pathlib.Path(path).resolve() raises ValueError (embedded null byte),
\* which the except clause for OSError and RuntimeError does not catch.
ResolveRaises(path) == \E i \in DOMAIN path : path[i] = Nul

\* The outcome of a call of _normalize_path: the text, or the exception.
normalize_path_call(path) ==
    IF ResolveRaises(path) THEN [raised |-> TRUE, vec |-> <<>>]
    ELSE Returned(normalize_path(path))

\* No encoder call under evaluation.
NoLab ==
    [fn |-> "none", rec |-> NoRecord, channels |-> Section(<<>>), dim |-> 1,
     path |-> NoPath,
     digest |-> <<>>, done |-> <<FALSE, FALSE>>, seed |-> <<<<>>, <<>>>>,
     out |-> <<VectorEmbeddingError, VectorEmbeddingError>>]

Init ==
    /\ pc = [p \in Procs |-> "idle"]
    /\ payload = [p \in Procs |-> NoPayload]
    /\ config = [p \in Procs |-> SuppliedConfig]
    /\ result = [p \in Procs |-> InitResult]
    /\ calls = [p \in Procs |-> <<>>]
    /\ faults = [p \in Procs |-> {}]
    /\ txn = [p \in Procs |-> "none"]
    /\ file_id = [p \in Procs |-> NoId]
    /\ tables = [p \in Procs |-> EmptyTables]
    /\ existing = [p \in Procs |-> <<>>]
    /\ exc = [p \in Procs |-> NoText]
    /\ updTarget = [p \in Procs |-> NoId]
    /\ absent = [p \in Procs |-> FALSE]
    /\ pending = [p \in Procs |-> EmptyTables]
    /\ committed = EmptyTables
    /\ ncalls = 0
    /\ prev = NoPrev
    /\ lab = NoLab

\* ------------------------------------------------------------ result texts

\* The text a store operation raises with.
StoreErr(op) == <<"StoreError", op>>

\* persist_to_vast_database, path check failed.
MissingPathResult(res) ==
    [res EXCEPT !.error = <<"Payload missing", "file.path">>,
                !.message = <<"Invalid payload structure">>]

\* persist_to_vast_database, no session.
SkippedResult(res) ==
    [res EXCEPT !.status = "skipped",
                !.message = <<"VAST DataBase not configured">>]

\* except VectorEmbeddingError.
EmbeddingErrorResult(res, e) ==
    [res EXCEPT !.error = <<"Embedding computation failed:">> \o e,
                !.message = <<"Vector", "embedding", "error">>]

\* Mutation: the handler records the message but not the error.
DatabaseErrorDropped(res, e) ==
    [res EXCEPT !.message = <<"Database connection error">>]

\* except VASTDatabaseError.
DatabaseErrorResult(res, e) ==
    [res EXCEPT !.error = <<"VAST DataBase error:">> \o e,
                !.message = <<"Database connection error">>]

\* except Exception.
UnexpectedErrorResult(res, e) ==
    [res EXCEPT !.error = <<"Unexpected error during persistence:">> \o e,
                !.message = <<"Persistence failed">>]

\* Mutation: the existing branch reports the freshly derived file_id.
ExistingResultDerivedId(res, row, fid) ==
    [res EXCEPT !.status = "success", !.file_id = fid, !.inserted = FALSE,
                !.message = <<"File already persisted:", "{file_id}">>]

\* _persist_with_transaction, `existing` branch, before the audit update.
ExistingResult(res, row, fid) ==
    [res EXCEPT !.status = "success", !.file_id = row.file_id,
                !.inserted = FALSE,
                !.message = <<"File already persisted:", "{file_id}">>]

\* Mutation: the insert branch leaves `inserted` at its initial value.
InsertedResultNotFlagged(res, fid) ==
    [res EXCEPT !.status = "success", !.file_id = fid,
                !.message = <<"File persisted:", "{file_id}">>]

\* _persist_with_transaction, insert branch, after _insert_new_file.
InsertedResult(res, fid) ==
    [res EXCEPT !.status = "success", !.file_id = fid, !.inserted = TRUE,
                !.message = <<"File persisted:", "{file_id}">>]

\* ------------------------------------------------------- the external store

\* handle.select(predicate): a committed FileRow with the key, if any
\* (LIMIT 1 without ORDER BY: any one of the matching rows).
StoreSelect(key) ==
    {<<committed.files[i]>> : i \in {j \in DOMAIN committed.files :
                                        RowKey(committed.files[j]) = key}}

\* transaction.commit(): the rows written since begin() become committed.
StoreCommit(pend) ==
    [t \in DOMAIN committed |-> committed[t] \o pend[t]]

\* Store policies: no constraint on the files table, or a uniqueness
\* constraint on (file_path_normalized, header_hash).
NoConstraint == "none"
UniqueKey == "unique"

\* handle.insert(rows) under a policy: with the uniqueness constraint an
\* insert into files is rejected when a row with the same key is committed
\* or written by another open transaction.
StoreAccepts(policy, p, t, rows) ==
    IF policy = NoConstraint \/ t # "files"
    THEN TRUE
    ELSE \A i \in DOMAIN rows :
            /\ StoreSelect(RowKey(rows[i])) = {}
            /\ \A q \in Procs \ {p} : \A j \in DOMAIN pending[q].files :
                  RowKey(pending[q].files[j]) # RowKey(rows[i])

\* The text the store raises with when it rejects a duplicate key.
DuplicateKey == <<"StoreError", "duplicate key">>

\* --------------------------------------------------------------- operations

\* The caller invokes persist_to_vast_database(payload, event, session).
Invoke(p, pl, cfg) ==
    /\ pc[p] = "idle"
    /\ ncalls < MaxCalls
    /\ ncalls' = ncalls + 1
    /\ payload' = [payload EXCEPT ![p] = pl]
    /\ config' = [config EXCEPT ![p] = cfg]
    /\ result' = [result EXCEPT ![p] = InitResult]
    /\ absent' = [absent EXCEPT ![p] = StoreSelect(DedupKey(pl)) = {}]
    /\ pc' = [pc EXCEPT ![p] = "validate"]
    /\ UNCHANGED <<calls, faults, txn, file_id, tables, existing, exc,
                   updTarget, pending, committed, prev>>
    /\ UNCHANGED lab

\* payload.get("file", {}) or file_info.get("path") raises AttributeError.
NotAMapping(pl) == pl.shape # "map"

\* Mutation: the path check is missing.
MissingPathIgnored(pl) == FALSE

\* `not file_info.get("path")`: the path is absent or empty.
MissingPath(pl) == pl.path = NoPath

\* payload.get("file", {}) and the path check, outside the try block.
Validate(p) ==
    /\ pc[p] = "validate"
    /\ IF NotAMapping(payload[p])
       THEN \* AttributeError: nothing catches it
            /\ pc' = [pc EXCEPT ![p] = "raised"]
            /\ exc' = [exc EXCEPT ![p] = <<"AttributeError", "get">>]
            /\ UNCHANGED result
       ELSE IF MissingPath(payload[p])
       THEN /\ result' = [result EXCEPT ![p] = MissingPathResult(@)]
            /\ pc' = [pc EXCEPT ![p] = "done"]
            /\ UNCHANGED exc
       ELSE /\ pc' = [pc EXCEPT ![p] = "session"]
            /\ UNCHANGED <<result, exc>>
    /\ UNCHANGED <<payload, config, calls, faults, txn, file_id, tables,
                   existing, updTarget, absent, pending, committed, ncalls,
                   prev>>
    /\ UNCHANGED lab

\* _create_vastdb_session: the endpoint it would connect to.
ConfiguredEndpoint(cfg) ==
    IF cfg.event_endpoint # "" THEN cfg.event_endpoint
    ELSE IF cfg.env_endpoint # "" THEN cfg.env_endpoint
    ELSE cfg.default_endpoint

\* Mutation: the missing SDK class is not checked.
NotConfiguredIgnoresSdk(cfg) == ConfiguredEndpoint(cfg) = ""

\* _create_vastdb_session returns None.
NotConfigured(cfg) == ~cfg.sdk \/ ConfiguredEndpoint(cfg) = ""

\* session = vastdb_session or _create_vastdb_session(event)
AcquireSession(p) ==
    /\ pc[p] = "session"
    /\ \/ /\ config[p].supplied
          /\ pc' = [pc EXCEPT ![p] = "vectors"]
          /\ UNCHANGED <<result, calls, faults>>
       \/ /\ ~config[p].supplied
          /\ NotConfigured(config[p])
          /\ result' = [result EXCEPT ![p] = SkippedResult(@)]
          /\ pc' = [pc EXCEPT ![p] = "done"]
          /\ UNCHANGED <<calls, faults>>
       \/ /\ ~config[p].supplied
          /\ ~NotConfigured(config[p])
          /\ calls' = [calls EXCEPT ![p] = Append(@, "session")]
          /\ \/ /\ pc' = [pc EXCEPT ![p] = "vectors"]
                /\ UNCHANGED <<result, faults>>
             \/ /\ faults' = [faults EXCEPT ![p] = @ \cup {"session"}]
                /\ result' = [result EXCEPT ![p] = DatabaseErrorResult(@,
                      <<"Failed to create VAST DataBase session:">>
                          \o StoreErr("session"))]
                /\ pc' = [pc EXCEPT ![p] = "done"]
    /\ UNCHANGED <<payload, config, txn, file_id, tables, existing, exc,
                   updTarget, absent, pending, committed, ncalls, prev>>
    /\ UNCHANGED lab

\* Mutation: the encoder accepts every payload.
EmbeddingNeverFails(pl) == FALSE

\* compute_metadata_embedding raises VectorEmbeddingError: len() or the
\* iteration of a null section fails in _extract_metadata_features.
EmbeddingFails(pl) == pl.channels.null \/ pl.parts.null

\* compute_metadata_embedding and compute_channel_fingerprint.
ComputeVectors(p) ==
    /\ pc[p] = "vectors"
    /\ IF EmbeddingFails(payload[p])
       THEN /\ result' = [result EXCEPT ![p] = EmbeddingErrorResult(@,
                  <<"Failed to compute metadata embedding:", "TypeError">>)]
            /\ pc' = [pc EXCEPT ![p] = "done"]
       ELSE /\ pc' = [pc EXCEPT ![p] = "project"]
            /\ UNCHANGED result
    /\ UNCHANGED <<payload, config, calls, faults, txn, file_id, tables,
                   existing, exc, updTarget, absent, pending, committed,
                   ncalls, prev>>
    /\ UNCHANGED lab

\* A payload_to_*_rows call raises: payload_to_files_row finds no path
\* (ValueError), or attributes is null (AttributeError).
ProjectionFails(pl) == pl.path = NoPath \/ pl.attributes.null

ProjectionError(pl) ==
    IF pl.path = NoPath THEN <<"Payload missing", "file.path">>
    ELSE <<"AttributeError", "get">>

\* payload_to_files_row .. payload_to_attributes_rows.
ProjectRows(p) ==
    /\ pc[p] = "project"
    /\ IF ProjectionFails(payload[p])
       THEN /\ result' = [result EXCEPT ![p] = UnexpectedErrorResult(@,
                  ProjectionError(payload[p]))]
            /\ pc' = [pc EXCEPT ![p] = "done"]
            /\ UNCHANGED <<file_id, tables>>
       ELSE LET fid == payload_to_files_row(payload[p])[1].file_id IN
            /\ file_id' = [file_id EXCEPT ![p] = fid]
            /\ tables' = [tables EXCEPT ![p] =
                  [files |-> payload_to_files_row(payload[p]),
                   parts |-> payload_to_parts_rows(payload[p], fid),
                   channels |-> payload_to_channels_rows(payload[p], fid,
                                  channel_fingerprint(payload[p])),
                   attributes |-> payload_to_attributes_rows(payload[p], fid)]]
            /\ pc' = [pc EXCEPT ![p] = "begin"]
            /\ UNCHANGED result
    /\ UNCHANGED <<payload, config, calls, faults, txn, existing, exc,
                   updTarget, absent, pending, committed, ncalls, prev>>
    /\ UNCHANGED lab

\* Mutation: the except block never rolls back.
RollbackNever(t) == FALSE

\* _persist_with_transaction, `except Exception`: rollback is attempted
\* only when begin() returned a transaction.
RollbackNeeded(t) == t # "none"

\* raise VASTDatabaseError(f"Transaction failed: {exc}")
TransactionFailed(e) == <<"Transaction failed:">> \o e

\* raise VASTDatabaseError(f"Insert failed for {file_id}: {exc}")
InsertFailed(e) == <<"Insert failed for", "{file_id}:">> \o e

\* txn = session.begin()
Begin(p) ==
    /\ pc[p] = "begin"
    /\ calls' = [calls EXCEPT ![p] = Append(@, "begin")]
    /\ \/ /\ txn' = [txn EXCEPT ![p] = "open"]
          /\ pc' = [pc EXCEPT ![p] = "select"]
          /\ UNCHANGED <<faults, exc>>
       \/ /\ faults' = [faults EXCEPT ![p] = @ \cup {"begin"}]
          /\ exc' = [exc EXCEPT ![p] = StoreErr("begin")]
          /\ pc' = [pc EXCEPT ![p] = "except"]
          /\ UNCHANGED txn
    /\ UNCHANGED <<payload, config, result, file_id, tables, existing,
                   updTarget, absent, pending, committed, ncalls, prev>>
    /\ UNCHANGED lab

\* Mutation: a child table is inserted before the files table.
InsertOrderPartsFirst == <<"parts", "files", "channels", "attributes">>

\* _insert_new_file: the order of the four inserts.
InsertOrder == <<"files", "parts", "channels", "attributes">>

\* Mutation: every table is inserted, with or without rows.
InsertIssuedAlways(t, rows) == TRUE

\* _insert_new_file: the files table is always inserted, a child table only
\* when its projection has rows.
InsertIssued(t, rows) == t = "files" \/ Len(rows) > 0

InsertPc(i) ==
    IF i <= Len(InsertOrder) THEN "insert_" \o InsertOrder[i] ELSE "commit"

\* Mutation: the SELECT never reports a row.
select_existing_file_never(rows, ok) == <<>>

\* _select_existing_file: the row found, or None; a failing SELECT is
\* logged and answered with None.
select_existing_file(rows, ok) == IF ok THEN rows ELSE <<>>

\* existing = _select_existing_file(files_client, path, header_hash) and
\* the branch on it.
Select(p) ==
    /\ pc[p] = "select"
    /\ calls' = [calls EXCEPT ![p] = Append(@, "select")]
    /\ LET key == <<normalize_path(payload[p].path),
                    tables[p].files[1].header_hash>>
           answers == IF StoreSelect(key) = {} THEN {<<>>} ELSE StoreSelect(key)
       IN  \E ok \in BOOLEAN, rows \in answers :
            LET found == select_existing_file(rows, ok) IN
            /\ faults' = [faults EXCEPT ![p] =
                            IF ok THEN @ ELSE @ \cup {"select"}]
            /\ existing' = [existing EXCEPT ![p] = found]
            /\ IF found # <<>>
               THEN /\ result' = [result EXCEPT ![p] =
                                    ExistingResult(@, found[1], file_id[p])]
                    /\ pc' = [pc EXCEPT ![p] = "audit"]
               ELSE /\ pc' = [pc EXCEPT ![p] = InsertPc(1)]
                    /\ UNCHANGED result
    /\ UNCHANGED <<payload, config, txn, file_id, tables, exc, updTarget,
                   absent, pending, committed, ncalls, prev>>
    /\ UNCHANGED lab

\* The file_id _persist_with_transaction passes to _update_audit_fields.
AuditTarget(fid, row) == fid

\* Mutation: a failing UPDATE escapes _update_audit_fields.
update_audit_fields_raises(ok) == IF ok THEN "commit" ELSE "except"

\* _update_audit_fields: where control goes after the UPDATE; a failing
\* UPDATE is logged and ignored.
update_audit_fields(ok) == "commit"

\* _update_audit_fields(files_client, file_id), then on to txn.commit().
UpdateAudit(p) ==
    /\ pc[p] = "audit"
    /\ calls' = [calls EXCEPT ![p] = Append(@, "update")]
    /\ updTarget' = [updTarget EXCEPT ![p] =
                        AuditTarget(file_id[p], existing[p][1])]
    /\ \E ok \in BOOLEAN :
          /\ faults' = [faults EXCEPT ![p] =
                          IF ok THEN @ ELSE @ \cup {"update"}]
          /\ pc' = [pc EXCEPT ![p] = update_audit_fields(ok)]
    /\ UNCHANGED <<payload, config, result, txn, file_id, tables, existing,
                   exc, absent, pending, committed, ncalls, prev>>
    /\ UNCHANGED lab

\* One step of _insert_new_file: the insert into table InsertOrder[i].
InsertTable(p, i, policy) ==
    LET t == InsertOrder[i] IN
    /\ pc[p] = InsertPc(i)
    /\ IF InsertIssued(t, tables[p][t])
       THEN /\ calls' = [calls EXCEPT ![p] = Append(@, "insert_" \o t)]
            /\ \/ /\ StoreAccepts(policy, p, t, tables[p][t])
                  /\ pending' = [pending EXCEPT ![p][t] = @ \o tables[p][t]]
                  /\ pc' = [pc EXCEPT ![p] = InsertPc(i + 1)]
                  /\ result' = [result EXCEPT ![p] =
                        IF i = Len(InsertOrder)
                        THEN InsertedResult(@, file_id[p]) ELSE @]
                  /\ UNCHANGED <<faults, exc>>
               \/ /\ faults' = [faults EXCEPT ![p] = @ \cup {"insert_" \o t}]
                  /\ exc' = [exc EXCEPT ![p] = InsertFailed(
                        IF StoreAccepts(policy, p, t, tables[p][t])
                        THEN StoreErr("insert_" \o t) ELSE DuplicateKey)]
                  /\ pc' = [pc EXCEPT ![p] = "except"]
                  /\ UNCHANGED <<pending, result>>
       ELSE /\ pc' = [pc EXCEPT ![p] = InsertPc(i + 1)]
            /\ result' = [result EXCEPT ![p] =
                  IF i = Len(InsertOrder)
                  THEN InsertedResult(@, file_id[p]) ELSE @]
            /\ UNCHANGED <<calls, pending, faults, exc>>
    /\ UNCHANGED <<payload, config, txn, file_id, tables, existing,
                   updTarget, absent, committed, ncalls, prev>>
    /\ UNCHANGED lab

InsertFiles(p, policy) == InsertTable(p, 1, policy)
InsertParts(p, policy) == InsertTable(p, 2, policy)
InsertChannels(p, policy) == InsertTable(p, 3, policy)
InsertAttributes(p, policy) == InsertTable(p, 4, policy)

\* txn.commit(), on either branch.
Commit(p) ==
    /\ pc[p] = "commit"
    /\ calls' = [calls EXCEPT ![p] = Append(@, "commit")]
    /\ \/ /\ committed' = StoreCommit(pending[p])
          /\ pending' = [pending EXCEPT ![p] = EmptyTables]
          /\ txn' = [txn EXCEPT ![p] = "committed"]
          /\ pc' = [pc EXCEPT ![p] = "done"]
          /\ UNCHANGED <<faults, exc>>
       \/ /\ faults' = [faults EXCEPT ![p] = @ \cup {"commit"}]
          /\ exc' = [exc EXCEPT ![p] = StoreErr("commit")]
          /\ pc' = [pc EXCEPT ![p] = "except"]
          /\ UNCHANGED <<committed, pending, txn>>
    /\ UNCHANGED <<payload, config, result, file_id, tables, existing,
                   updTarget, absent, ncalls, prev>>
    /\ UNCHANGED lab

\* `except Exception` of _persist_with_transaction: best-effort rollback,
\* then VASTDatabaseError, which persist_to_vast_database turns into the
\* error fields of the result.
Except(p) ==
    /\ pc[p] = "except"
    /\ IF RollbackNeeded(txn[p])
       THEN /\ calls' = [calls EXCEPT ![p] = Append(@, "rollback")]
            /\ pending' = [pending EXCEPT ![p] = EmptyTables]
            /\ \/ /\ txn' = [txn EXCEPT ![p] = "rolled_back"]
                  /\ UNCHANGED faults
               \/ /\ txn' = [txn EXCEPT ![p] = "rollback_failed"]
                  /\ faults' = [faults EXCEPT ![p] = @ \cup {"rollback"}]
       ELSE UNCHANGED <<calls, pending, txn, faults>>
    /\ result' = [result EXCEPT ![p] =
                    DatabaseErrorResult(@, TransactionFailed(exc[p]))]
    /\ pc' = [pc EXCEPT ![p] = "done"]
    /\ UNCHANGED <<payload, config, file_id, tables, existing, exc,
                   updTarget, absent, committed, ncalls, prev>>
    /\ UNCHANGED lab

\* persist_to_vast_database returns its result, or the exception reaches
\* the caller; nothing of the invocation is kept.
Return(p) ==
    /\ pc[p] \in {"done", "raised"}
    /\ prev' = IF pc[p] = "done" /\ faults[p] = {}
                THEN [valid |-> TRUE, payload |-> payload[p],
                      config |-> config[p], result |-> result[p],
                      absent |-> absent[p]]
                ELSE NoPrev
    /\ pc' = [pc EXCEPT ![p] = "idle"]
    /\ payload' = [payload EXCEPT ![p] = NoPayload]
    /\ config' = [config EXCEPT ![p] = SuppliedConfig]
    /\ result' = [result EXCEPT ![p] = InitResult]
    /\ calls' = [calls EXCEPT ![p] = <<>>]
    /\ faults' = [faults EXCEPT ![p] = {}]
    /\ txn' = [txn EXCEPT ![p] = "none"]
    /\ file_id' = [file_id EXCEPT ![p] = NoId]
    /\ tables' = [tables EXCEPT ![p] = EmptyTables]
    /\ existing' = [existing EXCEPT ![p] = <<>>]
    /\ exc' = [exc EXCEPT ![p] = NoText]
    /\ updTarget' = [updTarget EXCEPT ![p] = NoId]
    /\ absent' = [absent EXCEPT ![p] = FALSE]
    /\ UNCHANGED <<pending, committed, ncalls>>
    /\ UNCHANGED lab

\* ------------------------------------------------------------ specification

\* One step of the invocation in slot p, its inputs drawn from pls and cfgs,
\* against a store with the given policy.
StepOn(p, pls, cfgs, policy) ==
    \/ \E pl \in pls, cfg \in cfgs : Invoke(p, pl, cfg)
    \/ Validate(p)
    \/ AcquireSession(p)
    \/ ComputeVectors(p)
    \/ ProjectRows(p)
    \/ Begin(p)
    \/ Select(p)
    \/ UpdateAudit(p)
    \/ InsertFiles(p, policy)
    \/ InsertParts(p, policy)
    \/ InsertChannels(p, policy)
    \/ InsertAttributes(p, policy)
    \/ Commit(p)
    \/ Except(p)
    \/ Return(p)

Step(p) == StepOn(p, Payloads, Configs, NoConstraint)

\* Sequential, non-overlapping invocations.
Next == \E p \in SeqProcs : Step(p)

Spec == Init /\ [][Next]_vars

\* Records two concurrent callers pass: well-formed, with a session supplied.
RacePayloads ==
    {pl \in GoodPayloads : pl.mtime = "t1" /\ pl.size_bytes = SizeSmall}

\* Concurrent invocations, no cross-call mutual exclusion, against a store
\* without a uniqueness constraint.
NextRace ==
    \E p \in Procs : StepOn(p, RacePayloads, {SuppliedConfig}, NoConstraint)

SpecRace == Init /\ [][NextRace]_vars

\* Concurrent invocations against a store that enforces the uniqueness
\* constraint.
NextUnique ==
    \E p \in Procs : StepOn(p, RacePayloads, {SuppliedConfig}, UniqueKey)

SpecUnique == Init /\ [][NextUnique]_vars

\* ----------------------------------------------------------------- encoders

\* A caller asks for compute_metadata_embedding(rec, dim); the record's JSON
\* has the sha256 digest sha.
CallMetadataEmbedding(rec, dim, sha) ==
    /\ lab.fn = "none"
    /\ lab' = [NoLab EXCEPT !.fn = "metadata", !.rec = rec, !.dim = dim,
                            !.digest = sha]
    /\ UNCHANGED persistVars

\* A caller asks for compute_channel_fingerprint(channels, dim); the joined
\* names have the md5 digest md5.
CallChannelFingerprint(channels, dim, md5) ==
    /\ lab.fn = "none"
    /\ lab' = [NoLab EXCEPT !.fn = "channels", !.channels = channels,
                            !.dim = dim, !.digest = md5]
    /\ UNCHANGED persistVars

\* A caller asks for _normalize_path(path).
CallNormalizePath(path) ==
    /\ lab.fn = "none"
    /\ lab' = [NoLab EXCEPT !.fn = "normalize", !.path = path]
    /\ UNCHANGED persistVars

\* Process e, started with the given hash seed, evaluates the call.
Evaluate(e, seed) ==
    /\ lab.fn # "none"
    /\ ~lab.done[e]
    /\ lab' = [lab EXCEPT
                 !.done[e] = TRUE,
                 !.seed[e] = seed,
                 !.out[e] =
                    IF lab.fn = "metadata"
                    THEN compute_metadata_embedding(lab.rec, lab.dim,
                                                    lab.digest, seed)
                    ELSE IF lab.fn = "channels"
                    THEN compute_channel_fingerprint(lab.channels, lab.dim,
                                                     lab.digest)
                    ELSE normalize_path_call(lab.path)]
    /\ UNCHANGED persistVars

\* Both evaluations are finished with.
Forget ==
    /\ lab.fn # "none"
    /\ lab.done[1] /\ lab.done[2]
    /\ lab' = NoLab
    /\ UNCHANGED persistVars

NextEnc ==
    \/ \E rec \in EncRecords, dim \in Dims, sha \in ShaDigests :
          CallMetadataEmbedding(rec, dim, sha)
    \/ \E chs \in ChannelLists, dim \in Dims, md5 \in Md5Digests :
          CallChannelFingerprint(chs, dim, md5)
    \/ \E path \in LabPaths : CallNormalizePath(path)
    \/ \E e \in {1, 2}, seed \in Seeds : Evaluate(e, seed)
    \/ Forget

SpecEnc == Init /\ [][NextEnc]_vars

\* ------------------------------------------------------------------ claims

Count(seq, x) == Cardinality({i \in DOMAIN seq : seq[i] = x})

InsertOps == {"insert_files", "insert_parts", "insert_channels",
              "insert_attributes"}
TxnOps == {"begin", "select", "update", "commit", "rollback"} \cup InsertOps
Invoked(p, ops) == \E i \in DOMAIN calls[p] : calls[p][i] \in ops

\* A session is supplied or can be built.
HasSession(cfg) ==
    \/ cfg.supplied
    \/ /\ cfg.sdk
       /\ \/ cfg.event_endpoint # ""
          \/ cfg.env_endpoint # ""
          \/ cfg.default_endpoint # ""

\* C1: persisting the same well-formed record twice in a row, with a session
\* available, no FileRow for its key before the first call and no store
\* operation raising, returns success/inserted=true and then
\* success/inserted=false, with the same file_id.
C1_PersistTwiceIdempotent ==
    \A p \in Procs :
        (/\ pc[p] = "done"
         /\ faults[p] = {}
         /\ payload[p] \in GoodPayloads
         /\ HasSession(config[p])
         /\ prev.valid
         /\ prev.payload = payload[p]
         /\ prev.absent
         /\ HasSession(prev.config))
        => /\ prev.result.status = "success"
           /\ prev.result.inserted
           /\ result[p].status = "success"
           /\ ~result[p].inserted
           /\ result[p].file_id = prev.result.file_id
           /\ result[p].file_id # NoId

C1_Witness ==
    \E p \in Procs :
        /\ pc[p] = "done"
        /\ faults[p] = {}
        /\ payload[p] \in GoodPayloads
        /\ HasSession(config[p])
        /\ prev.valid
        /\ prev.payload = payload[p]
        /\ prev.absent
        /\ HasSession(prev.config)
        /\ prev.result.inserted
        /\ ~result[p].inserted

\* C2: the files table never holds two FileRows with the same
\* (file_path_normalized, header_hash).
C2_NoDuplicateFileRow ==
    \A i, j \in DOMAIN committed.files :
        i # j => RowKey(committed.files[i]) # RowKey(committed.files[j])

\* C3: when an insert raised, the invocation returns status=error, rollback
\* was invoked exactly once and commit was never invoked.
C3_InsertFailureRollsBackOnce ==
    \A p \in Procs :
        (pc[p] = "done" /\ faults[p] \cap InsertOps # {})
        => /\ result[p].status = "error"
           /\ Count(calls[p], "rollback") = 1
           /\ Count(calls[p], "commit") = 0
           /\ existing[p] = <<>>

C3_Witness ==
    \E p \in Procs :
        /\ pc[p] = "done"
        /\ "insert_channels" \in faults[p]
        /\ Count(calls[p], "rollback") = 1
        /\ result[p].status = "error"

\* C4: when commit raised (here: the only store call of the invocation
\* that raised), on the insert path or the already-exists path, the
\* invocation rolls back and returns status=error with inserted=false.
C4_CommitFailureIsError ==
    \A p \in Procs :
        (pc[p] = "done" /\ faults[p] = {"commit"})
        => /\ Count(calls[p], "rollback") = 1
           /\ result[p].status = "error"
           /\ ~result[p].inserted

\* C5: when the SELECT raised (here: the only store call of the invocation
\* that raised), the invocation rolls back, returns status=error and
\* inserts into no table.
C5_SelectFailureIsError ==
    \A p \in Procs :
        (pc[p] = "done" /\ faults[p] = {"select"})
        => /\ Invoked(p, {"rollback"})
           /\ result[p].status = "error"
           /\ ~Invoked(p, InsertOps)

\* C6: every invocation returns a result whose status is skipped, success
\* or error; no exception reaches the caller.
C6_AlwaysReturnsResult ==
    \A p \in Procs :
        /\ pc[p] # "raised"
        /\ pc[p] = "done" => result[p].status \in {"skipped", "success", "error"}

\* C7: for a payload whose file section (a mapping, or absent) has no
\* non-empty path, the result is status=error with an error text naming
\* file.path, no session is created and no store operation is invoked.
C7_MissingPathNoTransaction ==
    \A p \in Procs :
        (payload[p].shape = "map" /\ payload[p].path = NoPath)
        => /\ calls[p] = <<>>
           /\ txn[p] = "none"
           /\ pc[p] \in {"validate", "done"}
           /\ pc[p] = "done" =>
                /\ result[p].status = "error"
                /\ Contains(result[p].error, "file.path")
                /\ result[p].file_id = NoId
                /\ ~result[p].inserted

C7_Witness ==
    \E p \in Procs :
        /\ pc[p] = "done"
        /\ payload[p] = NoPathPayload
        /\ ~config[p].supplied
        /\ HasSession(config[p])
        /\ result[p].status = "error"

\* C8: with a path, no supplied session and none configurable (SDK class
\* missing, or no endpoint in event, environment or default), the result is
\* status=skipped, file_id null, inserted=false, error null; no vector is
\* computed, no row projected, no store operation invoked, whatever the
\* rest of the payload.
C8_NotConfiguredSkips ==
    \A p \in Procs :
        (/\ pc[p] \notin {"idle", "validate", "session"}
         /\ payload[p].shape = "map"
         /\ payload[p].path # NoPath
         /\ ~config[p].supplied
         /\ \/ ~config[p].sdk
            \/ /\ config[p].event_endpoint = ""
               /\ config[p].env_endpoint = ""
               /\ config[p].default_endpoint = "")
        => /\ pc[p] = "done"
           /\ result[p].status = "skipped"
           /\ result[p].file_id = NoId
           /\ ~result[p].inserted
           /\ result[p].error = NoText
           /\ calls[p] = <<>>
           /\ file_id[p] = NoId
           /\ tables[p] = EmptyTables

C8_Witness ==
    \E p \in Procs :
        /\ pc[p] = "done"
        /\ payload[p] = NullChannelsPayload
        /\ ~config[p].supplied
        /\ ~config[p].sdk
        /\ config[p].event_endpoint # ""
        /\ result[p].status = "skipped"

\* C9: with a session available, when the encoder raises
\* VectorEmbeddingError (a null channels or parts section) the result is
\* status=error with a message containing "embedding", and no transaction
\* operation is invoked.
C9_EmbeddingErrorBeforeTransaction ==
    \A p \in Procs :
        (/\ pc[p] \notin {"idle", "validate", "session", "vectors"}
         /\ payload[p].shape = "map"
         /\ payload[p].path # NoPath
         /\ HasSession(config[p])
         /\ faults[p] = {}
         /\ payload[p].channels.null \/ payload[p].parts.null)
        => /\ pc[p] = "done"
           /\ result[p].status = "error"
           /\ Contains(result[p].message, "embedding")
           /\ ~Invoked(p, TxnOps)
           /\ txn[p] = "none"

C9_Witness ==
    \E p \in Procs :
        /\ pc[p] = "done"
        /\ payload[p] = NullChannelsPayload
        /\ HasSession(config[p])
        /\ faults[p] = {}
        /\ Contains(result[p].message, "embedding")

\* C10: when the SELECT found a FileRow for the key, no insert is invoked,
\* commit is invoked, the result is inserted=false with the stored row's
\* file_id (status=success once commit returned), also when the derived
\* file_id differs; with one stored file_id for the key, the file_id
\* equals the one the preceding call on that key reported.
C10_ExistingRowReported ==
    \A p \in Procs :
        existing[p] # <<>>
        => /\ ~Invoked(p, InsertOps)
           /\ \E i \in DOMAIN committed.files :
                 /\ committed.files[i] = existing[p][1]
                 /\ RowKey(committed.files[i]) = DedupKey(payload[p])
           /\ result[p].file_id = existing[p][1].file_id
           /\ ~result[p].inserted
           /\ pc[p] = "done" => Invoked(p, {"commit"})
           /\ txn[p] = "committed" => result[p].status = "success"
           /\ (/\ pc[p] = "done"
               /\ prev.valid
               /\ prev.result.status = "success"
               /\ DedupKey(prev.payload) = DedupKey(payload[p])
               /\ Cardinality(StoreSelect(DedupKey(payload[p]))) = 1)
              => result[p].file_id = prev.result.file_id

C10_Witness ==
    \E p \in Procs :
        /\ pc[p] = "done"
        /\ existing[p] # <<>>
        /\ txn[p] = "committed"
        /\ file_id[p] # existing[p][1].file_id
        /\ result[p].file_id = existing[p][1].file_id
        /\ prev.valid
        /\ prev.result.inserted

\* C11: on the already-exists path a failing audit UPDATE triggers no
\* rollback and does not keep commit from being invoked; when nothing else
\* raises the result is status=success, inserted=false, error null.
C11_AuditFailureSwallowed ==
    \A p \in Procs :
        /\ ("update" \in faults[p] /\ "commit" \notin faults[p])
           => /\ pc[p] \in {"commit", "done"}
              /\ ~Invoked(p, {"rollback"})
        /\ (pc[p] = "done" /\ "update" \in faults[p])
           => Count(calls[p], "commit") = 1
        /\ (pc[p] = "done" /\ faults[p] = {"update"})
           => /\ txn[p] = "committed"
              /\ result[p].status = "success"
              /\ ~result[p].inserted
              /\ result[p].error = NoText
              /\ result[p].file_id = existing[p][1].file_id

C11_Witness ==
    \E p \in Procs :
        /\ pc[p] = "done"
        /\ faults[p] = {"update"}
        /\ existing[p] # <<>>
        /\ txn[p] = "committed"
        /\ result[p].status = "success"

\* Position of a store call among the four inserts (0: not an insert).
InsertRank(op) ==
    CASE op = "insert_files" -> 1
      [] op = "insert_parts" -> 2
      [] op = "insert_channels" -> 3
      [] op = "insert_attributes" -> 4
      [] OTHER -> 0

\* C12: the inserts of an invocation are issued in the order files, parts,
\* channels, attributes, all before commit and only after a SELECT that
\* found nothing; a child insert is issued only after the files insert
\* returned; after an insert that raised no further insert is issued.
C12_InsertOrderParentFirst ==
    \A p \in Procs :
        \A j \in DOMAIN calls[p] :
            InsertRank(calls[p][j]) > 0 =>
                /\ existing[p] = <<>>
                /\ \A i \in 1..(j - 1) :
                      /\ calls[p][i] # "commit"
                      /\ InsertRank(calls[p][i]) < InsertRank(calls[p][j])
                      /\ InsertRank(calls[p][i]) > 0
                            => calls[p][i] \notin faults[p]
                /\ InsertRank(calls[p][j]) > 1 =>
                      \E i \in 1..(j - 1) : calls[p][i] = "insert_files"
                /\ \E i \in 1..(j - 1) : calls[p][i] = "select"

C12_Witness ==
    \E p \in Procs :
        /\ pc[p] = "done"
        /\ txn[p] = "committed"
        /\ calls[p] = <<"begin", "select", "insert_files", "insert_parts",
                        "insert_channels", "insert_attributes", "commit">>

\* FileRows committed under a dedup key.
KeyRows(key) == {i \in DOMAIN committed.files : RowKey(committed.files[i]) = key}

\* Two overlapping invocations on one dedup key whose SELECTs both found
\* nothing, both finished, no store call having raised.
Raced(p, q) ==
    /\ p # q
    /\ pc[p] = "done" /\ pc[q] = "done"
    /\ faults[p] = {} /\ faults[q] = {}
    /\ payload[p].shape = "map" /\ payload[q].shape = "map"
    /\ DedupKey(payload[p]) = DedupKey(payload[q])
    /\ Invoked(p, {"select"}) /\ Invoked(q, {"select"})
    /\ existing[p] = <<>> /\ existing[q] = <<>>

\* C13: without a uniqueness constraint in the store, two concurrent
\* invocations on the same dedup key whose SELECTs both return not-found
\* both return status=success with inserted=true and leave two FileRows
\* with that key in the files table; the witness is that interleaving.
C13_RaceDuplicatesRow ==
    \A p, q \in Procs :
        Raced(p, q) =>
            /\ result[p].status = "success" /\ result[p].inserted
            /\ result[q].status = "success" /\ result[q].inserted
            /\ txn[p] = "committed" /\ txn[q] = "committed"
            /\ Cardinality(KeyRows(DedupKey(payload[p]))) = 2

C13_Witness ==
    \E p, q \in Procs :
        /\ Raced(p, q)
        /\ result[p].inserted /\ result[q].inserted
        /\ Cardinality(KeyRows(DedupKey(payload[p]))) = 2

\* The store rejected the files insert of the invocation in slot p.
Rejected(p) == exc[p] = InsertFailed(DuplicateKey)

\* C14: with the uniqueness constraint in the store, the files table never
\* holds more than one FileRow per dedup key, and an invocation whose files
\* insert is rejected inserts nothing more, rolls back once, never commits
\* and returns status=error with inserted=false.
C14_UniqueStoreRejectsLoser ==
    /\ \A pl \in RacePayloads : Cardinality(KeyRows(DedupKey(pl))) <= 1
    /\ \A p \in Procs :
          Rejected(p) =>
              /\ pc[p] \in {"except", "done"}
              /\ ~Invoked(p, {"commit", "insert_parts", "insert_channels",
                              "insert_attributes"})
              /\ pending[p] = EmptyTables
              /\ result[p].status = "error" /\ ~result[p].inserted
              /\ pc[p] = "done" =>
                    /\ Count(calls[p], "rollback") = 1
                    /\ result[p].error # NoText

C14_Witness ==
    \E p, q \in Procs :
        /\ p # q
        /\ pc[p] = "done" /\ pc[q] = "done"
        /\ Rejected(p)
        /\ existing[p] = <<>> /\ "select" \notin faults[p]
        /\ result[p].status = "error"
        /\ result[q].status = "success" /\ result[q].inserted
        /\ faults[q] = {}
        /\ DedupKey(payload[p]) = DedupKey(payload[q])
        /\ Cardinality(KeyRows(DedupKey(payload[p]))) = 1

\* Evaluation e of the encoder call has returned a vector.
Returns(e) ==
    lab.fn \in {"metadata", "channels"} /\ lab.done[e] /\ ~lab.out[e].raised

\* a == b on floats: a NaN is equal to nothing.
ElemEq(a, b) == a.q > 0 /\ b.q > 0 /\ a = b

\* Two outcomes are the same: both raise, or both return element-wise equal
\* vectors.
SameOutcome(a, b) ==
    /\ a.raised = b.raised
    /\ Len(a.vec) = Len(b.vec)
    /\ \A i \in DOMAIN a.vec : ElemEq(a.vec[i], b.vec[i])

\* C15: two evaluations of compute_metadata_embedding or of
\* compute_channel_fingerprint on the same input, in processes with any
\* hash seeds, return element-wise equal vectors.
C15_EncodersDeterministic ==
    (lab.fn \in {"metadata", "channels"} /\ lab.done[1] /\ lab.done[2])
        => SameOutcome(lab.out[1], lab.out[2])

\* C16: for every input an encoder returns a vector for and every requested
\* dimension, the returned vector has exactly that many elements.
C16_LengthIsDim ==
    \A e \in {1, 2} : Returns(e) => Len(lab.out[e].vec) = lab.dim

C16_Witness ==
    /\ lab.fn = "metadata"
    /\ lab.rec = ZipRecord
    /\ lab.dim > Len(MetadataFeatureValues(
                        extract_metadata_features(lab.rec, <<>>)))
                 + Len(lab.digest) - 1
    /\ Returns(1)
    /\ Len(lab.out[1].vec) = lab.dim

\* The L2 norm of a vector is 1: every element is a number n / sqrt(q) with
\* the same q, and the squares of the n add up to q.
UnitNorm(vec) ==
    /\ vec # <<>>
    /\ \A i \in DOMAIN vec : vec[i].q > 0 /\ vec[i].q = vec[1].q
    /\ SumSq([i \in DOMAIN vec |-> vec[i].n]) = vec[1].q

\* C17: every vector compute_metadata_embedding returns, and every vector
\* compute_channel_fingerprint returns for a non-empty channel list, has L2
\* norm 1, whatever chunks the digest holds.
C17_UnitNorm ==
    \A e \in {1, 2} :
        (Returns(e) /\ (lab.fn = "metadata" \/ lab.channels.items # <<>>))
            => UnitNorm(lab.out[e].vec)

\* Every element of the vector is exactly 0.0.
ZeroVector(vec) == \A i \in DOMAIN vec : vec[i].q > 0 /\ vec[i].n = 0

\* C18: compute_channel_fingerprint returns the all-zero vector of the
\* requested dimension for the empty channel list, and for no other list.
C18_ZeroVectorIffEmpty ==
    \A e \in {1, 2} :
        (lab.fn = "channels" /\ lab.done[e]) =>
            /\ ~lab.out[e].raised
            /\ Len(lab.out[e].vec) = lab.dim
            /\ ZeroVector(lab.out[e].vec) <=> lab.channels.items = <<>>

C18_Witness ==
    /\ lab.fn = "channels"
    /\ lab.channels = Section(<<>>)
    /\ lab.dim > 1
    /\ Returns(1)
    /\ ZeroVector(lab.out[1].vec)
    /\ Len(lab.out[1].vec) = lab.dim

\* C19: compute_metadata_embedding raises VectorEmbeddingError for None, a
\* string, the empty mapping and a mapping whose file section is null.
C19_InvalidRecordRaises ==
    \A e \in {1, 2} :
        (lab.fn = "metadata" /\ lab.done[e] /\ lab.rec \in InvalidRecords)
            => lab.out[e].raised

\* Number of attributes in all the attribute lists of a record.
RECURSIVE AttributeCount(_)
AttributeCount(lists) ==
    IF lists = <<>> THEN 0 ELSE Len(Head(lists)) + AttributeCount(Tail(lists))

\* The row projection of the invocation in slot p has been computed.
Projected(p) == tables[p].files # <<>>

\* C20: the row projection of one persist call holds exactly 1 files row,
\* one parts row per part, one channels row per channel and one attributes
\* row per attribute, all of them with the file_id of the files row.
C20_ProjectionRowCounts ==
    \A p \in Procs :
        Projected(p) =>
            /\ Len(tables[p].files) = 1
            /\ Len(tables[p].parts) = Len(payload[p].parts.items)
            /\ Len(tables[p].channels) = Len(payload[p].channels.items)
            /\ Len(tables[p].attributes)
                  = AttributeCount(payload[p].attributes.items)
            /\ \A t \in DOMAIN tables[p] : \A i \in DOMAIN tables[p][t] :
                  tables[p][t][i].file_id = tables[p].files[1].file_id
            /\ file_id[p] = tables[p].files[1].file_id

C20_Witness ==
    \E p \in Procs :
        /\ Projected(p)
        /\ Len(tables[p].parts) = 2
        /\ Len(tables[p].channels) = 3
        /\ Len(tables[p].attributes) = 3
        /\ \E i, j \in DOMAIN tables[p].attributes :
              tables[p].attributes[i].part_index
                 # tables[p].attributes[j].part_index

\* Two records differ in file.size_bytes and/or file.mtime and in nothing
\* else.
DifferOnlyInStat(a, b) ==
    /\ a # b
    /\ [a EXCEPT !.size_bytes = b.size_bytes, !.mtime = b.mtime] = b

\* C21: when a record was inserted and a record differing from it only in
\* size_bytes and/or mtime is persisted next (a session available, no store
\* operation raising), both have the same header_hash and the second call
\* selects the stored row and returns inserted=false without inserting.
C21_KeyIgnoresSizeAndMtime ==
    \A p \in Procs :
        (/\ pc[p] = "done"
         /\ faults[p] = {}
         /\ payload[p] \in GoodPayloads
         /\ HasSession(config[p])
         /\ prev.valid
         /\ prev.result.status = "success"
         /\ prev.result.inserted
         /\ DifferOnlyInStat(prev.payload, payload[p]))
        => /\ tables[p].files[1].header_hash
                 = payload_to_files_row(prev.payload)[1].header_hash
           /\ existing[p] # <<>>
           /\ result[p].status = "success"
           /\ ~result[p].inserted
           /\ ~Invoked(p, InsertOps)

C21_Witness ==
    \E p \in Procs :
        /\ pc[p] = "done"
        /\ faults[p] = {}
        /\ prev.valid
        /\ prev.result.inserted
        /\ prev.payload.size_bytes # payload[p].size_bytes
        /\ prev.payload.mtime = payload[p].mtime
        /\ DifferOnlyInStat(prev.payload, payload[p])
        /\ existing[p] # <<>>
        /\ ~result[p].inserted

\* An uppercase character: str.lower() changes it.
IsUpper(ch) == Lower(ch) # ch

\* C22: _normalize_path never raises, returns the same text on repeated
\* calls, and its result holds no backslash and no uppercase character.
C22_NormalizedPathCanonical ==
    \A e \in {1, 2} :
        (lab.fn = "normalize" /\ lab.done[e]) =>
            /\ ~lab.out[e].raised
            /\ \A i \in DOMAIN lab.out[e].vec :
                  /\ lab.out[e].vec[i] # "\\"
                  /\ ~IsUpper(lab.out[e].vec[i])
            /\ (lab.done[1] /\ lab.done[2]) => lab.out[1] = lab.out[2]

\* C23: when a store step inside the transaction raised and the rollback
\* that followed raised too, the invocation still returns (nothing
\* propagates) with status=error, the error text reports the original
\* failure and not the rollback's, and rollback was invoked once.
C23_RollbackFailureKeepsOriginalError ==
    \A p \in Procs :
        (pc[p] \in {"done", "raised"} /\ "rollback" \in faults[p])
        => /\ pc[p] = "done"
           /\ result[p].status = "error"
           /\ result[p].error =
                 <<"VAST DataBase error:">> \o TransactionFailed(exc[p])
           /\ exc[p] # StoreErr("rollback")
           /\ Count(calls[p], "rollback") = 1

\* The compression of the first part, in part order, that has one.
FirstCompression(parts) ==
    IF Compressions(parts) = {} THEN "none"
    ELSE parts[CHOOSE i \in DOMAIN parts :
                  /\ parts[i].compression # ""
                  /\ \A j \in 1..(i - 1) : parts[j].compression = ""].compression

\* C24: for a record _extract_metadata_features accepts, compression_type
\* is the compression of the first part, in part order, with a non-empty
\* compression, and "none" when no part has one, in every process.
C24_CompressionOfFirstPart ==
    \A e \in {1, 2} :
        (lab.fn = "metadata" /\ lab.done[e] /\ ~ExtractRaises(lab.rec))
        => extract_metadata_features(lab.rec, lab.seed[e]).compression_type
              = FirstCompression(GetSection(lab.rec, "parts").items)

\* C25: of the channel rows projected from a record, the first holds the
\* fingerprint computed for the record's channels and every later row holds
\* an empty one, whatever the rows' part_index. The rows do not change
\* after the projection, so the first row's value is compared where the
\* projection has just run.
C25_FingerprintOnFirstRowOnly ==
    \A p \in Procs :
        Projected(p) =>
            \A i \in DOMAIN tables[p].channels :
                IF i = 1
                THEN /\ Len(tables[p].channels[i].channel_fingerprint)
                          = DEFAULT_CHANNEL_FINGERPRINT_DIM
                     /\ pc[p] = "begin" =>
                           tables[p].channels[i].channel_fingerprint
                              = channel_fingerprint(payload[p])
                ELSE tables[p].channels[i].channel_fingerprint = <<>>

C25_Witness ==
    \E p \in Procs :
        /\ Projected(p)
        /\ Len(tables[p].channels) = 3
        /\ tables[p].channels[3].part_index # tables[p].channels[1].part_index
        /\ Len(tables[p].channels[1].channel_fingerprint)
              = DEFAULT_CHANNEL_FINGERPRINT_DIM
        /\ tables[p].channels[3].channel_fingerprint = <<>>

ChildTables == {"parts", "channels", "attributes"}

\* C26: a record with no parts, channels or attributes projects to zero
\* rows for that table, the table receives no insert call, and (no store
\* call raising, no row with the key stored) the FileRow is inserted and
\* committed and the invocation returns status=success, inserted=true.
C26_EmptyChildTableSkipped ==
    \A p \in Procs : \A t \in ChildTables :
        (pc[p] = "done" /\ Projected(p) /\ payload[p][t].items = <<>>)
        => /\ tables[p][t] = <<>>
           /\ ~Invoked(p, {"insert_" \o t})
           /\ (faults[p] = {} /\ existing[p] = <<>>)
                 => /\ Count(calls[p], "insert_files") = 1
                    /\ txn[p] = "committed"
                    /\ \E i \in DOMAIN committed.files :
                          committed.files[i] = tables[p].files[1]
                    /\ result[p].status = "success"
                    /\ result[p].inserted

C26_Witness ==
    \E p \in Procs :
        /\ pc[p] = "done"
        /\ Projected(p)
        /\ \A t \in ChildTables : payload[p][t].items = <<>>
        /\ calls[p] = <<"begin", "select", "insert_files", "commit">>
        /\ result[p].status = "success"
        /\ result[p].inserted

\* C27: no transaction survives an invocation: when begin() returned a
\* transaction, by the time the invocation returns commit has returned
\* successfully or rollback has been invoked; begin is invoked at most once
\* per invocation, and rollback never after a commit that succeeded.
C27_NoTransactionSurvives ==
    \A p \in Procs :
        /\ Count(calls[p], "begin") <= 1
        /\ txn[p] = "committed" => ~Invoked(p, {"rollback"})
        /\ (pc[p] \in {"done", "raised"} /\ Invoked(p, {"begin"})
               /\ "begin" \notin faults[p])
             => \/ txn[p] = "committed"
                \/ (Invoked(p, {"rollback"})
                     /\ txn[p] \in {"rolled_back", "rollback_failed"})

C27_Witness ==
    \E p \in Procs :
        /\ pc[p] = "done"
        /\ "commit" \in faults[p]
        /\ Count(calls[p], "begin") = 1
        /\ Count(calls[p], "rollback") = 1
        /\ txn[p] = "rolled_back"

\* C28: every returned result is consistent: error is non-null exactly
\* when status=error, inserted=true only with status=success, and
\* status=success only when commit returned successfully.
C28_ResultConsistent ==
    \A p \in Procs :
        pc[p] = "done"
        => /\ (result[p].error # NoText) <=> (result[p].status = "error")
           /\ result[p].inserted => result[p].status = "success"
           /\ result[p].status = "success" => txn[p] = "committed"

\* C29: on the already-exists path the audit UPDATE is addressed to the
\* file_id of the stored row that was found, the one the result reports,
\* and so never to a file_id that no stored row has.
C29_AuditTargetsStoredRow ==
    \A p \in Procs :
        Invoked(p, {"update"})
        => /\ updTarget[p] = existing[p][1].file_id
           /\ updTarget[p] = result[p].file_id
           /\ \E i \in DOMAIN committed.files :
                 committed.files[i].file_id = updTarget[p]

\* The rows of a sequence, as a set.
Rows(seq) == {seq[i] : i \in DOMAIN seq}

\* Every child row projected from the record pl is committed.
ChildrenCommitted(pl) ==
    LET fid == payload_to_files_row(pl)[1].file_id IN
    /\ Rows(payload_to_parts_rows(pl, fid)) \subseteq Rows(committed.parts)
    /\ Rows(payload_to_channels_rows(pl, fid, channel_fingerprint(pl)))
          \subseteq Rows(committed.channels)
    /\ Rows(payload_to_attributes_rows(pl, fid))
          \subseteq Rows(committed.attributes)

\* The committed store holds a FileRow only together with all the part,
\* channel and attribute rows of a record it was projected from.
StoreAllOrNothing ==
    \A f \in Rows(committed.files) :
        \E pl \in GoodPayloads :
            payload_to_files_row(pl)[1] = f /\ ChildrenCommitted(pl)

\* status=success with inserted=true is returned only when the FileRow and
\* all child rows of the record are committed.
InsertedMeansCommitted ==
    \A p \in Procs :
        (pc[p] = "done" /\ result[p].status = "success" /\ result[p].inserted)
        => /\ Rows(tables[p].files) \subseteq Rows(committed.files)
           /\ ChildrenCommitted(payload[p])

\* C30: with a store whose rollback discards the inserts made since begin,
\* the writes across the four tables are all-or-nothing: the committed
\* store holds a FileRow only together with all its child rows, and
\* status=success, inserted=true is returned only when all are committed.
C30_WritesAllOrNothing == StoreAllOrNothing /\ InsertedMeansCommitted

====
